---------------------------- MODULE Spec2Model ----------------------------
(***************************************************************************)
(* Model of code/multi-stage-diagnosis.py: the two-stage pipeline          *)
(* (predict, diagnose) and the Tk application that calls it from worker    *)
(* threads (App.upload_image, App.run_diagnosis, App.display_output).      *)
(*                                                                         *)
(* Conventions                                                             *)
(*  - A path is the sequence of its '/'-separated components, i.e. what    *)
(*    str.split('/') returns: "/home/user/a.png" is                        *)
(*    <<"", "home", "user", "a.png">> and '' is <<"">>.                    *)
(*  - A model output (predictions[0][0]) is counted in tenths, so the      *)
(*    literal 0.5 of the source is Threshold == 5.                         *)
(*  - What lies outside the program (whether the model artifacts exist,    *)
(*    what the image file holds, whether the interpreter runs) is input:   *)
(*    the artifacts are fixed in Init, the image is read anew by every     *)
(*    predict call.                                                        *)
(*  - A local variable is reset once its frame is gone (diagnose's locals  *)
(*    when run_diagnosis has mapped the result, everything when the        *)
(*    thread is unwound by an exception).                                  *)
(***************************************************************************)
EXTENDS Integers, Sequences, FiniteSets, TLC

\* Number of uploads (worker threads) the model follows.
MaxUploads == 2

\* 0.5 in `predictions[0][0] > 0.5`, in tenths.
Threshold == 5

\* Model outputs the stubs may yield: below, at and above the threshold.
Probs == {Threshold - 1, Threshold, Threshold + 1}

\* Values of locals that are not (or no longer) bound.
NoProb == -1
NoClass == -1
NoPath == <<>>
NoResult == ""
NoError == ""

\* askopenfilename() returns '' when the dialog is cancelled.
Cancelled == <<"">>

\* What the user can pick in the file dialog (absolute paths, or cancel).
\* The process runs in /srv/app, so the second file is already in ./Testing.
Selectable ==
    { Cancelled,
      <<"", "home", "user", "a.png">>,
      <<"", "srv", "app", "Testing", "b.png">> }

\* What a predict call finds at image_path and in the interpreter run.
Images == [file : {"missing", "undecodable", "ok"}, p : Probs, runs : BOOLEAN]

Models == {1, 2}

Threads == 1..MaxUploads

VARIABLES
    model_exists,   \* model_exists[m]: model<m>.tflite is on disk
    nUploads,       \* worker threads started so far
    file_path,      \* upload_image: the path the last started upload selected
    th,             \* th[t]: the frame of worker thread t
    loading_label,  \* text of App.loading_label
    text_state,     \* state option of App.output_text
    output_text,    \* content of App.output_text: the texts inserted, in order
    loads           \* loads[m]: interpreters created and allocated for model m

vars ==
    <<model_exists, nUploads, file_path, th, loading_label, text_state,
      output_text, loads>>

-----------------------------------------------------------------------------
\* Pure parts of the code.

\* image_name = file_path.split('/')[-1]; image_path = f'./Testing/{image_name}'
Rewrite(fp) == <<".", "Testing", fp[Len(fp)]>>

ClassifyGe(p) == IF p >= Threshold THEN 1 ELSE 0

\* predicted_class = 1 if predictions[0][0] > 0.5 else 0
Classify(p) == IF p > Threshold THEN 1 ELSE 0

Raise(e) == [raised |-> TRUE, err |-> e, class |-> NoClass, p |-> NoProb]

Return(c, p) == [raised |-> FALSE, err |-> NoError, class |-> c, p |-> p]

\* predict with the image read before the interpreter is created.
predictImageFirst(exists, img) ==
    IF img.file = "missing" THEN Raise("FileNotFoundError")
    ELSE IF img.file = "undecodable" THEN Raise("DecodeError")
    ELSE IF ~exists THEN Raise("ModelLoadError")
    ELSE IF ~img.runs THEN Raise("InferenceError")
    ELSE Return(Classify(img.p), img.p)

\* predict that takes an unreadable image for an all-zero tensor.
predictSwallow(exists, img) ==
    IF ~exists THEN Raise("ModelLoadError")
    ELSE IF img.file # "ok" THEN Return(0, Threshold - 1)
    ELSE IF ~img.runs THEN Raise("InferenceError")
    ELSE Return(Classify(img.p), img.p)

\* predict(image_path, shape, model_path), given whether model_path exists
\* and what is found at image_path.
predict(exists, img) ==
    IF ~exists THEN Raise("ModelLoadError")                      \* Interpreter(model_path=...)
    ELSE IF img.file = "missing" THEN Raise("FileNotFoundError") \* load_img
    ELSE IF img.file = "undecodable" THEN Raise("DecodeError")   \* load_img
    ELSE IF ~img.runs THEN Raise("InferenceError")               \* set_tensor / invoke
    ELSE Return(Classify(img.p), img.p)

ReturnsNormalInverted(class1) == class1 = 0

\* if class1 == 1: return 'n'
ReturnsNormal(class1) == class1 = 1

Stage2LabelSwapped(class2) == IF class2 = 0 THEN "m" ELSE "b"

\* if class2 == 0: return 'b' else: return 'm'
Stage2Label(class2) == IF class2 = 0 THEN "b" ELSE "m"

ResTextNoMalignant(result) ==
    IF result = "n" THEN "Normal"
    ELSE IF result = "b" THEN "Benign"
    ELSE "Error"

\* run_diagnosis: the if/elif chain from result to res.
ResText(result) ==
    IF result = "n" THEN "Normal"
    ELSE IF result = "b" THEN "Benign"
    ELSE IF result = "m" THEN "Malignant"
    ELSE "Error"

\* A load or inference failure happens in a predict call (read off the
\* inputs, not off predict's answer).
Failure(exists, img) == ~exists \/ img.file # "ok" \/ ~img.runs

-----------------------------------------------------------------------------
\* Thread frames.

Idle ==
    [pc |-> "idle", image_path |-> NoPath, invoked |-> <<>>,
     p1 |-> NoProb, p2 |-> NoProb, class1 |-> NoClass, class2 |-> NoClass,
     result |-> NoResult, err |-> NoError, failed |-> FALSE, res |-> ""]

\* The thread is unwound by an exception: diagnose and run_diagnosis never
\* return, display_output is not called.
Unwound(f, e, failed) ==
    [Idle EXCEPT !.pc = "dead", !.invoked = f.invoked, !.class1 = f.class1,
                 !.err = e, !.failed = failed]

Init ==
    /\ model_exists \in [Models -> BOOLEAN]
    /\ nUploads = 0
    /\ file_path = Cancelled
    /\ th = [t \in Threads |-> Idle]
    /\ loading_label = ""
    /\ text_state = "disabled"
    /\ output_text = <<>>
    /\ loads = [m \in Models |-> 0]

-----------------------------------------------------------------------------
\* Main thread.

\* App.upload_image with the dialog's answer fp (display_loading included).
upload_image(fp) ==
    IF fp = Cancelled
    THEN UNCHANGED vars
    ELSE /\ nUploads < MaxUploads
         /\ loading_label' = "Loading..."
         /\ file_path' = fp
         /\ nUploads' = nUploads + 1
         /\ th' = [th EXCEPT ![nUploads + 1] =
                       [Idle EXCEPT !.pc = "stage1", !.image_path = Rewrite(fp)]]
         /\ UNCHANGED <<model_exists, text_state, output_text, loads>>

UploadImage == \E fp \in Selectable : upload_image(fp)

-----------------------------------------------------------------------------
\* Worker thread t: run_diagnosis(image_path).

\* diagnose, first part: class1 = predict(image_path, shape1, model_1_path);
\* if class1 == 1: return 'n'
Stage1(t) ==
    /\ th[t].pc = "stage1"
    /\ \E img \in Images :
          LET r == predict(model_exists[1], img)
              f == [th[t] EXCEPT !.invoked = <<1>>]
              bad == Failure(model_exists[1], img)
          IN  th' = [th EXCEPT ![t] =
                  IF r.raised THEN Unwound(f, r.err, bad)
                  ELSE IF ReturnsNormal(r.class)
                       THEN [f EXCEPT !.pc = "returned", !.p1 = r.p,
                                      !.class1 = r.class, !.result = "n",
                                      !.failed = bad]
                       ELSE [f EXCEPT !.pc = "stage2", !.p1 = r.p,
                                      !.class1 = r.class, !.failed = bad]]
    /\ loads' = [loads EXCEPT ![1] = IF model_exists[1] THEN @ + 1 ELSE @]
    /\ UNCHANGED <<model_exists, nUploads, file_path, loading_label, text_state,
                   output_text>>

\* diagnose, second part: class2 = predict(image_path, shape2, model_2_path);
\* return 'b' or 'm'
Stage2(t) ==
    /\ th[t].pc = "stage2"
    /\ \E img \in Images :
          LET r == predict(model_exists[2], img)
              f == [th[t] EXCEPT !.invoked = <<1, 2>>]
              bad == th[t].failed \/ Failure(model_exists[2], img)
          IN  th' = [th EXCEPT ![t] =
                  IF r.raised THEN Unwound(f, r.err, bad)
                  ELSE [f EXCEPT !.pc = "returned", !.p2 = r.p,
                                 !.class2 = r.class,
                                 !.result = Stage2Label(r.class),
                                 !.failed = bad]]
    /\ loads' = [loads EXCEPT ![2] = IF model_exists[2] THEN @ + 1 ELSE @]
    /\ UNCHANGED <<model_exists, nUploads, file_path, loading_label, text_state,
                   output_text>>

\* run_diagnosis after diagnose has returned: the if/elif chain sets res, then
\* display_output(res) starts with loading_label.config(text="").  Each
\* widget call of display_output is a step of its own: calls of different
\* threads reach the Tk interpreter one at a time, in any order.
ClearLoading(t) ==
    /\ th[t].pc = "returned"
    /\ loading_label' = ""
    /\ th' = [th EXCEPT ![t] =
                 [Idle EXCEPT !.pc = "enable", !.res = ResText(th[t].result),
                              !.failed = th[t].failed]]
    /\ UNCHANGED <<model_exists, nUploads, file_path, text_state, output_text, loads>>

\* display_output: output_text.config(state=tk.NORMAL)
EnableText(t) ==
    /\ th[t].pc = "enable"
    /\ text_state' = "normal"
    /\ th' = [th EXCEPT ![t].pc = "delete"]
    /\ UNCHANGED <<model_exists, nUploads, file_path, loading_label, output_text, loads>>

\* display_output: output_text.delete(1.0, tk.END); a disabled Text widget
\* ignores it.
DeleteText(t) ==
    /\ th[t].pc = "delete"
    /\ output_text' = IF text_state = "normal" THEN <<>> ELSE output_text
    /\ th' = [th EXCEPT ![t].pc = "insert"]
    /\ UNCHANGED <<model_exists, nUploads, file_path, loading_label, text_state, loads>>

\* display_output: output_text.insert(tk.END, text); a disabled Text widget
\* ignores it.
InsertText(t) ==
    /\ th[t].pc = "insert"
    /\ output_text' = IF text_state = "normal"
                      THEN Append(output_text, th[t].res) ELSE output_text
    /\ th' = [th EXCEPT ![t].pc = "disable"]
    /\ UNCHANGED <<model_exists, nUploads, file_path, loading_label, text_state, loads>>

\* display_output: the "center" tag, then output_text.config(state=tk.DISABLED);
\* run_diagnosis returns and the thread ends.
DisableText(t) ==
    /\ th[t].pc = "disable"
    /\ text_state' = "disabled"
    /\ th' = [th EXCEPT ![t].pc = "done"]
    /\ UNCHANGED <<model_exists, nUploads, file_path, loading_label, output_text, loads>>

Worker(t) ==
    \/ Stage1(t)
    \/ Stage2(t)
    \/ ClearLoading(t)
    \/ EnableText(t)
    \/ DeleteText(t)
    \/ InsertText(t)
    \/ DisableText(t)

Next == UploadImage \/ \E t \in Threads : Worker(t)

Spec == Init /\ [][Next]_vars

-----------------------------------------------------------------------------
\* Vocabulary of the properties.

Labels == {"n", "b", "m"}

Texts == {"Normal", "Benign", "Malignant"}

\* Thread t is inside diagnose.
InFlight(t) == th[t].pc \in {"stage1", "stage2"}

\* The diagnose call of thread t is over (returned or raised) and its frame
\* is still in view.
CallOver(t) == th[t].pc \in {"returned", "dead"}

\* Thread t has ended.
Ended(t) == th[t].pc \in {"done", "dead"}

\* Thread t has called display_output.
Displayed(t) == th[t].pc \in {"enable", "delete", "insert", "disable", "done"}

AllEnded == nUploads > 0 /\ \A t \in 1..nUploads : Ended(t)

-----------------------------------------------------------------------------
\* C1: in every diagnose call, model 2 (and its 299x299 load) is invoked if
\* and only if stage 1 classified the image as class 0; when model 1 yields
\* p1 > 0.5 the call returns 'n' having invoked model 1 only.
C1_Stage2IffClass0 ==
    \A t \in Threads :
        LET f == th[t] IN
        /\ f.invoked = <<1, 2>> => f.class1 = 0
        /\ (CallOver(t) /\ f.class1 = 0) => f.invoked = <<1, 2>>
        /\ f.p1 > Threshold =>
              /\ f.pc = "returned"
              /\ f.result = "n"
              /\ f.invoked = <<1>>
              /\ f.p2 = NoProb
              /\ f.class2 = NoClass

C1_Witness ==
    \E t \in Threads :
        /\ th[t].pc = "returned"
        /\ th[t].p1 > Threshold
        /\ th[t].result = "n"

\* C2: when model 1 yields p1 <= 0.5, the label diagnose returns is 'b' for
\* p2 <= 0.5 and 'm' for p2 > 0.5, never 'n'.
C2_Stage2Decides ==
    \A t \in Threads :
        LET f == th[t] IN
        (f.pc = "returned" /\ f.p1 \in Probs /\ f.p1 <= Threshold) =>
            /\ f.p2 \in Probs
            /\ f.result = (IF f.p2 <= Threshold THEN "b" ELSE "m")
            /\ f.result # "n"

C2_Witness ==
    \E t \in Threads :
        /\ th[t].pc = "returned"
        /\ th[t].p1 < Threshold
        /\ th[t].p2 > Threshold
        /\ th[t].result = "m"

\* C3: an output of exactly 0.5 is class 0 in both stages: p1 = 0.5 goes on
\* to stage 2 and does not return 'n'; p2 = 0.5 returns 'b'.
C3_StrictThreshold ==
    \A t \in Threads :
        LET f == th[t] IN
        /\ f.p1 = Threshold =>
              /\ f.class1 = 0
              /\ f.pc \in {"stage2", "returned"}
              /\ f.result # "n"
              /\ f.pc = "returned" => f.invoked = <<1, 2>>
        /\ f.p2 = Threshold =>
              /\ f.class2 = 0
              /\ f.result = "b"

C3_Witness ==
    \E t \in Threads :
        /\ th[t].pc = "returned"
        /\ th[t].p1 = Threshold
        /\ th[t].p2 = Threshold
        /\ th[t].result = "b"

\* C4: a diagnose call in which the image is missing or unreadable, a model
\* fails to load or the inference fails, in either stage, ends in an
\* exception: it returns no label and nothing is displayed for it.
C4_FailureIsNoLabel ==
    \A t \in Threads :
        LET f == th[t] IN
        f.failed =>
            /\ f.pc = "dead"
            /\ f.err # NoError
            /\ f.result = NoResult
            /\ f.res = ""

C4_Witness ==
    \E t \in Threads :
        /\ th[t].failed
        /\ th[t].pc = "dead"
        /\ th[t].err = "FileNotFoundError"
        /\ model_exists[1]

\* C5 as claimed: with either model artifact missing, every diagnose call
\* that is over has failed with a model-load error.
C5_Orig ==
    \A t \in Threads :
        (CallOver(t) /\ (~model_exists[1] \/ ~model_exists[2])) =>
            /\ th[t].pc = "dead"
            /\ th[t].err = "ModelLoadError"

\* C5, amended: with model1.tflite missing every diagnose call fails in
\* stage 1 with a model-load error, whatever the image; with only
\* model2.tflite missing a call fails with a model-load error exactly when it
\* reaches stage 2, a call that returns returns 'n' for p1 > 0.5 without
\* touching model 2, and a call that fails in stage 1 fails on the image or
\* the inference.
C5_LazyLoadFailure ==
    \A t \in Threads :
        LET f == th[t] IN
        /\ (~model_exists[1] /\ f.pc \notin {"idle", "stage1"}) =>
              /\ f.pc = "dead"
              /\ f.err = "ModelLoadError"
              /\ f.invoked = <<1>>
              /\ f.result = NoResult
        /\ (model_exists[1] /\ ~model_exists[2]) =>
              /\ f.invoked = <<1, 2>> => (f.pc = "dead" /\ f.err = "ModelLoadError")
              /\ f.pc = "returned" =>
                    (f.result = "n" /\ f.p1 > Threshold /\ f.invoked = <<1>>)
              /\ (f.pc = "dead" /\ f.invoked = <<1>>) =>
                    f.err \in {"FileNotFoundError", "DecodeError", "InferenceError"}
              /\ Displayed(t) => f.res = "Normal"

C5_Witness ==
    /\ model_exists[1]
    /\ ~model_exists[2]
    /\ \E t \in Threads : th[t].pc = "returned" /\ th[t].result = "n"
    /\ \E t \in Threads : th[t].pc = "dead" /\ th[t].invoked = <<1, 2>>

\* C6 as claimed: over all the diagnose calls of the process each model
\* artifact is loaded at most once.
C6_Orig == \A m \in Models : loads[m] <= 1

\* C7 as claimed: the path handed to diagnose is the selected file path,
\* unchanged.
C7_Orig ==
    (nUploads > 0 /\ th[nUploads].image_path # NoPath) =>
        th[nUploads].image_path = file_path

\* C8: diagnose returns only 'n', 'b' or 'm', so the text run_diagnosis hands
\* to display_output, and every text in the output pane, is 'Normal',
\* 'Benign' or 'Malignant', never 'Error'.
C8_ErrorUnreachable ==
    /\ \A t \in Threads :
          /\ th[t].pc = "returned" => th[t].result \in Labels
          /\ Displayed(t) => th[t].res \in Texts
    /\ \A i \in 1..Len(output_text) : output_text[i] \in Texts

C8_Witness ==
    \E t \in Threads :
        /\ th[t].pc = "done"
        /\ th[t].res = "Malignant"
        /\ output_text = <<"Malignant">>

\* C9 as claimed: once all worker threads have ended, the pane shows the
\* diagnosis of the most recent upload, and the 'Loading...' label is never
\* cleared while a diagnosis is in flight.
C9_Orig ==
    /\ (AllEnded /\ th[nUploads].pc = "done") =>
          output_text = <<th[nUploads].res>>
    /\ loading_label = "" => \A t \in Threads : ~InFlight(t)

\* C10 as claimed: every worker thread that has ended has called
\* display_output, so that once all of them have ended the label is cleared.
C10_Orig ==
    /\ \A t \in Threads : Ended(t) => Displayed(t)
    /\ AllEnded => loading_label = ""

=============================================================================
